---- MODULE Spec2Model ----
(***************************************************************************)
(* tracerr2: errors that carry the call stack captured at construction,    *)
(* wrap a cause, and print themselves with source context.                 *)
(*                                                                         *)
(* Two builds of the package are modelled:                                 *)
(*   "chain"  - src/tracerr2.go        (Wrap/Wrapf, cause chain, no caret)  *)
(*   "single" - src/unnamed/part_001   (no cause, caret row under the line) *)
(*                                                                         *)
(* Strings are sequences of one-token strings, so that concatenation,      *)
(* prefix tests, splitting and joining are computed and not assumed.       *)
(***************************************************************************)
EXTENDS Integers, Sequences, FiniteSets, TLC

VARIABLES
    variant,    \* which build runs: "chain" or "single"
    heap,       \* the *Error values allocated so far, by address 1..Len(heap)
    last,       \* the constructor call that has just returned: its operation,
                \* arguments and result; None once Fprint has been called
    pc,         \* position of the Fprint call: "idle","loop","frames","next","done","panic"
    root,       \* address of the receiver of the running Fprint (0 when idle)
    cur,        \* Fprint's currentErr, an error interface value
    isFirst,    \* Fprint's isFirst
    fi,         \* index of the next frame of the current node to print
    out,        \* what Fprint has written to w, as a sequence of output rows
    call,       \* input of the function under check (SpecRead, SpecCapture)
    result      \* its result

vars == <<variant, heap, last, pc, root, cur, isFirst, fi, out, call, result>>

None == [k |-> "none"]

----------------------------------------------------------------------------
(* Bounds of the model *)

MaxNodes == 3       \* Error values allocated in one behaviour
MaxFileLen == 4     \* bytes of a file given to readSourceContextLines alone
MaxCenter == 4      \* largest centerLine given to readSourceContextLines alone
MaxContext == 2     \* largest context radius given to readSourceContextLines alone
MaxDepth == 3       \* stack levels above the constructor in SpecCapture
MaxLines == 11      \* lines of the file of a frame printed alone (SpecFrame)

----------------------------------------------------------------------------
(* Strings *)

SeqsUpTo(S, n) == UNION {[1..k -> S] : k \in 0..n}

Max(a, b) == IF a >= b THEN a ELSE b
Min(a, b) == IF a <= b THEN a ELSE b

\* strings.HasPrefix
HasPrefix(s, p) == Len(s) >= Len(p) /\ SubSeq(s, 1, Len(p)) = p

\* index of the first occurrence of token c in s, 0 when there is none
Index(s, c) ==
    LET hits == {i \in 1..Len(s) : s[i] = c} IN
    IF hits = {} THEN 0 ELSE CHOOSE i \in hits : \A j \in hits : i <= j

\* strings.Split(s, sep) for a one-token separator: always at least one field
RECURSIVE Split(_, _)
Split(s, sep) ==
    LET i == Index(s, sep) IN
    IF i = 0 THEN <<s>>
    ELSE <<SubSeq(s, 1, i - 1)>> \o Split(SubSeq(s, i + 1, Len(s)), sep)

\* strings.Join(parts, sep)
RECURSIVE Join(_, _)
Join(parts, sep) ==
    IF Len(parts) = 0 THEN <<>>
    ELSE IF Len(parts) = 1 THEN parts[1]
    ELSE parts[1] \o sep \o Join(Tail(parts), sep)

\* filepath.Base: the last element of a path; trailing separators are dropped
\* first, the empty path is ".", a path of separators only is "/"
RECURSIVE TrimSlashes(_)
TrimSlashes(p) ==
    IF Len(p) > 0 /\ p[Len(p)] = "/" THEN TrimSlashes(SubSeq(p, 1, Len(p) - 1))
    ELSE p

RECURSIVE LastIndex(_, _, _)
LastIndex(s, c, i) ==
    IF i = 0 THEN 0
    ELSE IF s[i] = c THEN i
    ELSE LastIndex(s, c, i - 1)

Base(path) ==
    IF Len(path) = 0 THEN <<".">>
    ELSE LET t == TrimSlashes(path) IN
         IF Len(t) = 0 THEN <<"/">>
         ELSE SubSeq(t, LastIndex(t, "/", Len(t)) + 1, Len(t))

\* fmt's %d of n >= 0: its decimal digits
DigitTok(d) == <<"0", "1", "2", "3", "4", "5", "6", "7", "8", "9">>[d + 1]

RECURSIVE Itoa(_)
Itoa(n) == IF n < 10 THEN <<DigitTok(n)>> ELSE Itoa(n \div 10) \o <<DigitTok(n % 10)>>

\* fmt's %*d: s right-aligned in a field of the given width
RECURSIVE PadLeft(_, _)
PadLeft(width, s) == IF Len(s) >= width THEN s ELSE PadLeft(width, <<" ">> \o s)

\* fmt.Sprintf for formats whose verbs are %d and whose arguments are
\* integers: a verb with no argument left prints %!d(MISSING), arguments
\* left over are listed in a trailing %!(EXTRA ...)
RECURSIVE ExtraArgs(_)
ExtraArgs(args) ==
    IF Len(args) = 1 THEN <<"int=">> \o Itoa(args[1])
    ELSE <<"int=">> \o Itoa(args[1]) \o <<", ">> \o ExtraArgs(Tail(args))

RECURSIVE Sprintf(_, _)
Sprintf(format, args) ==
    IF Len(format) = 0
    THEN (IF Len(args) = 0 THEN <<>> ELSE <<"%!(EXTRA ">> \o ExtraArgs(args) \o <<")">>)
    ELSE IF format[1] = "%d"
         THEN IF Len(args) = 0
              THEN <<"%!d(MISSING)">> \o Sprintf(Tail(format), args)
              ELSE Itoa(args[1]) \o Sprintf(Tail(format), Tail(args))
         ELSE <<format[1]>> \o Sprintf(Tail(format), args)

----------------------------------------------------------------------------
(* Source context reader: readSourceContextLines *)

\* A file as the reader meets it: whether os.Open succeeds, the bytes the
\* reads deliver, and whether the read after them fails (an I/O error, as on
\* a directory) instead of reporting end of file.
NoFile == [open |-> FALSE, data |-> <<>>, ioerr |-> FALSE]

File(data) == [open |-> TRUE, data |-> data, ioerr |-> FALSE]

\* bufio.ScanLines' dropCR
dropCR(s) ==
    IF Len(s) > 0 /\ s[Len(s)] = "\r" THEN SubSeq(s, 1, Len(s) - 1) ELSE s

\* The file cut at "\n": the bytes of each line as they lie in the scanner's
\* buffer; a last line without newline counts when non-empty
RECURSIVE RawLines(_)
RawLines(data) ==
    LET i == Index(data, "\n") IN
    IF i = 0 THEN (IF Len(data) = 0 THEN <<>> ELSE <<data>>)
    ELSE <<SubSeq(data, 1, i - 1)>> \o RawLines(SubSeq(data, i + 1, Len(data)))

\* The lines of the file as bufio.ScanLines cuts them: one trailing "\r" is
\* dropped from each
RECURSIVE ScanLines(_)
ScanLines(data) ==
    LET i == Index(data, "\n") IN
    IF i = 0 THEN (IF Len(data) = 0 THEN <<>> ELSE <<dropCR(data)>>)
    ELSE <<dropCR(SubSeq(data, 1, i - 1))>> \o ScanLines(SubSeq(data, i + 1, Len(data)))

\* bufio.MaxScanTokenSize: the scanner's buffer grows to this size and no
\* further (the code never calls scanner.Buffer)
MaxScanTokenSize == 65536

\* One element of a file's data is one byte, except LongRun, which stands for
\* a run of MaxScanTokenSize bytes "b"
LongRun == "b*65536"

ByteLen(tok) == IF tok = LongRun THEN MaxScanTokenSize ELSE 1

\* len of a line in bytes
Size(s) ==
    Len(s) + (ByteLen(LongRun) - 1) * Cardinality({i \in 1..Len(s) : s[i] = LongRun})

\* The index of the first line that fills the buffer before its "\n" is
\* found (MaxScanTokenSize bytes or more), 0 when there is none: the Scan
\* call that reaches it returns false with bufio.ErrTooLong
FirstTooLong(data) ==
    IF Size(data) < MaxScanTokenSize THEN 0
    ELSE LET raw == RawLines(data)
             long == {i \in 1..Len(raw) : Size(raw[i]) >= MaxScanTokenSize}
         IN IF long = {} THEN 0 ELSE CHOOSE i \in long : \A j \in long : i <= j

\* The tokens scanner.Scan()/scanner.Text() deliver: the lines before the
\* first one that is too long
Delivered(data) ==
    LET k == FirstTooLong(data) IN
    IF k = 0 THEN ScanLines(data) ELSE SubSeq(ScanLines(data), 1, k - 1)

\* ScanLoop with the window's lower end excluded (currentLine > start)
RECURSIVE ScanLoopOpenStart(_, _, _, _, _)
ScanLoopOpenStart(ls, currentLine, start, end, acc) ==
    IF currentLine >= Len(ls)
    THEN [lines |-> acc, scans |-> currentLine + 1]
    ELSE LET c == currentLine + 1
             acc2 == IF c > start /\ c <= end THEN Append(acc, ls[c]) ELSE acc
         IN IF c > end
            THEN [lines |-> acc2, scans |-> c]
            ELSE ScanLoopOpenStart(ls, c, start, end, acc2)

\* the for scanner.Scan() loop: ls are the lines the scanner delivers,
\* currentLine counts the lines taken, acc is "lines"; scans is the number of
\* calls to scanner.Scan() made (the last one returns false unless the loop
\* breaks)
RECURSIVE ScanLoop(_, _, _, _, _)
ScanLoop(ls, currentLine, start, end, acc) ==
    IF currentLine >= Len(ls)
    THEN [lines |-> acc, scans |-> currentLine + 1]
    ELSE LET c == currentLine + 1
             acc2 == IF c >= start /\ c <= end THEN Append(acc, ls[c]) ELSE acc
         IN IF c > end
            THEN [lines |-> acc2, scans |-> c]
            ELSE ScanLoop(ls, c, start, end, acc2)

\* scanner.Err() after scans calls to Scan, "nil" when there is none. A call
\* that reaches a line too long for the buffer fails with ErrTooLong. A line
\* that ends in "\n" is delivered from the buffer, every later call reads the
\* file again first (an unterminated last line is delivered only after that
\* read returned), and a failed read stays recorded in the scanner.
ScanErr(file, scans) ==
    LET k == FirstTooLong(file.data) IN
    IF k > 0 /\ scans >= k THEN "toolong"
    ELSE IF file.ioerr /\
            scans > Cardinality({i \in 1..Len(file.data) : file.data[i] = "\n"})
         THEN "scan"
    ELSE "nil"

ReadErr(why) == [err |-> why, lines |-> <<>>, start |-> 0]

\* readSourceContextLines without the len(lines) == 0 check
readSourceContextLinesNoEmptyCheck(file, centerLine, context) ==
    IF ~file.open THEN ReadErr("open")
    ELSE LET start == IF centerLine - context < 1 THEN 1 ELSE centerLine - context
             end == centerLine + context
             r == ScanLoop(Delivered(file.data), 0, start, end, <<>>)
             err == ScanErr(file, r.scans)
         IN IF err # "nil" THEN ReadErr(err)
            ELSE [err |-> "nil", lines |-> r.lines, start |-> start]

readSourceContextLines(file, centerLine, context) ==
    IF ~file.open THEN ReadErr("open")
    ELSE LET start == IF centerLine - context < 1 THEN 1 ELSE centerLine - context
             end == centerLine + context
             r == ScanLoop(Delivered(file.data), 0, start, end, <<>>)
             err == ScanErr(file, r.scans)
         IN IF err # "nil" THEN ReadErr(err)
            ELSE IF Len(r.lines) = 0 THEN ReadErr("empty")
            ELSE [err |-> "nil", lines |-> r.lines, start |-> start]

----------------------------------------------------------------------------
(* Frame capture: newError *)

\* One level of the goroutine's stack as runtime.Caller and runtime.FuncForPC
\* report it: file, line, and the function's full symbol name (known = FALSE
\* when FuncForPC returns nil).
Level(file, line, name) == [file |-> file, line |-> line, known |-> TRUE, name |-> name]
LevelNoFunc(file, line) == [file |-> file, line |-> line, known |-> FALSE, name |-> <<>>]

RuntimePrefix == <<"runtime", ".">>

PkgPath == <<"github.com", "/", "xplshn", "/", "tracerr2", ".">>
PkgFile == <<"/", "mod", "/", "tracerr2.go">>

\* The stack runtime.Caller sees inside newError: level 0 is newError, level 1
\* the exported constructor that called it, then the constructor's callers.
FullStack(ctor, ctorLine, user) ==
    <<Level(PkgFile, 82, PkgPath \o <<"newError">>),
      Level(PkgFile, ctorLine, PkgPath \o <<ctor>>)>> \o user

NilErr == [k |-> "nil"]                     \* the nil error interface
NilPtr == [k |-> "nilptr"]                  \* a nil *Error held in an error interface
Ptr(a) == [k |-> "ptr", a |-> a]            \* the *Error at address a
Std(m) == [k |-> "std", msg |-> m]          \* an error of another type, without Unwrap

\* the loop of newError without the runtime. check
RECURSIVE CaptureLoopV1(_, _, _)
CaptureLoopV1(stack, i, frames) ==
    IF i + 1 > Len(stack) THEN frames
    ELSE LET lv == stack[i + 1]
             funcName == IF lv.known THEN Base(lv.name) ELSE <<"<unknown>">>
         IN CaptureLoopV1(stack, i + 1,
                Append(frames, [File |-> lv.file, Line |-> lv.line, Function |-> funcName]))

\* the loop of newError: for i := skip; ; i++ { runtime.Caller(i) ... }
RECURSIVE CaptureLoop(_, _, _)
CaptureLoop(stack, i, frames) ==
    IF i + 1 > Len(stack) THEN frames
    ELSE LET lv == stack[i + 1]
             funcName == IF lv.known THEN Base(lv.name) ELSE <<"<unknown>">>
         IN IF HasPrefix(funcName, RuntimePrefix) THEN frames
            ELSE CaptureLoop(stack, i + 1,
                     Append(frames, [File |-> lv.file, Line |-> lv.line, Function |-> funcName]))

newError(stack, msg, skip) ==
    [Msg |-> msg, Frames |-> CaptureLoop(stack, skip, <<>>), cause |-> NilErr]

\* newError of the single-node build; its Error has no cause field, which the
\* model holds as a cause that is always nil
newErrorV1(stack, msg, skip) ==
    [Msg |-> msg, Frames |-> CaptureLoopV1(stack, skip, <<>>), cause |-> NilErr]

----------------------------------------------------------------------------
(* Constructors.  Each takes the heap and the caller's stack and yields the *)
(* heap afterwards and the *Error returned (0 is the nil pointer).          *)

New(h, user, msg) ==
    [heap |-> Append(h, newError(FullStack("New", 46, user), msg, 2)),
     res |-> Len(h) + 1]

Errorf(h, user, format, args) ==
    [heap |-> Append(h, newError(FullStack("Errorf", 52, user), Sprintf(format, args), 2)),
     res |-> Len(h) + 1]

\* Wrap that links the other way round: the given error is made to point at
\* the new node
WrapBackwards(h, user, err, msg) ==
    IF err = NilErr THEN [heap |-> h, res |-> 0]
    ELSE LET e == newError(FullStack("Wrap", 61, user), msg, 2)
             h2 == IF err.k = "ptr"
                   THEN [h EXCEPT ![err.a].cause = Ptr(Len(h) + 1)]
                   ELSE h
         IN [heap |-> Append(h2, e), res |-> Len(h) + 1]

\* Wrap without the nil check
WrapNoNilCheck(h, user, err, msg) ==
    LET e == newError(FullStack("Wrap", 61, user), msg, 2)
    IN [heap |-> Append(h, [e EXCEPT !.cause = err]), res |-> Len(h) + 1]

Wrap(h, user, err, msg) ==
    IF err = NilErr THEN [heap |-> h, res |-> 0]
    ELSE LET e == newError(FullStack("Wrap", 61, user), msg, 2)
         IN [heap |-> Append(h, [e EXCEPT !.cause = err]), res |-> Len(h) + 1]

Wrapf(h, user, err, format, args) ==
    IF err = NilErr THEN [heap |-> h, res |-> 0]
    ELSE LET e == newError(FullStack("Wrapf", 72, user), Sprintf(format, args), 2)
         IN [heap |-> Append(h, [e EXCEPT !.cause = err]), res |-> Len(h) + 1]

NewV1(h, user, msg) ==
    [heap |-> Append(h, newErrorV1(FullStack("New", 44, user), msg, 2)),
     res |-> Len(h) + 1]

ErrorfV1(h, user, format, args) ==
    [heap |-> Append(h, newErrorV1(FullStack("Errorf", 50, user), Sprintf(format, args), 2)),
     res |-> Len(h) + 1]

\* a *Error handed on as an error value: a nil pointer becomes a non-nil
\* interface holding a nil *Error (Go's conversion of a pointer to an interface)
ToError(p) == IF p = 0 THEN NilPtr ELSE Ptr(p)

\* a call that panics yields no value
Panic == [panic |-> TRUE, v |-> <<>>]
Val(v) == [panic |-> FALSE, v |-> v]

Sep == <<":", " ">>

\* Error() without the ": " between the message and the cause's
RECURSIVE ErrorNoSep(_, _)
ErrorNoSep(h, e) ==
    IF e.k = "std" THEN Val(e.msg)
    ELSE IF e.k # "ptr" THEN Panic
    ELSE IF h[e.a].cause # NilErr
         THEN LET c == ErrorNoSep(h, h[e.a].cause) IN
              IF c.panic THEN Panic ELSE Val(h[e.a].Msg \o c.v)
         ELSE Val(h[e.a].Msg)

\* err.Error() of an error value e: (*Error).Error for a *Error, whose read of
\* e.cause on a nil receiver panics; the message of an error of another type
RECURSIVE Error(_, _)
Error(h, e) ==
    IF e.k = "std" THEN Val(e.msg)
    ELSE IF e.k # "ptr" THEN Panic
    ELSE IF h[e.a].cause # NilErr
         THEN LET c == Error(h, h[e.a].cause) IN
              IF c.panic THEN Panic ELSE Val(h[e.a].Msg \o Sep \o c.v)
         ELSE Val(h[e.a].Msg)

\* Error() of the single-node build
ErrorV1(h, e) == Val(h[e.a].Msg)

\* (*Error).Unwrap: e.cause, a panic on a nil receiver
Unwrap(h, e) == IF e.k = "ptr" THEN Val(h[e.a].cause) ELSE Panic

\* errors.Unwrap(err): err's Unwrap() when its type has one, nil otherwise
errorsUnwrap(h, e) == IF e.k \in {"ptr", "nilptr"} THEN Unwrap(h, e) ELSE Val(NilErr)

----------------------------------------------------------------------------
(* Rendering: Fprint and printFrame *)

colorRed == "ESC[31m"
colorYellow == "ESC[33m"
colorReset == "ESC[0m"
colorGray == "ESC[90m"
colorBoldGray == "ESC[1;90m"
formatItalic == "ESC[3m"

gray(s) == <<colorGray>> \o s \o <<colorReset>>
boldGray(s) == <<colorBoldGray>> \o s \o <<colorReset>>
red(s) == <<colorRed>> \o s \o <<colorReset>>
yellow(s) == <<colorYellow>> \o s \o <<colorReset>>

\* The highlighting engine, quick.Highlight(&buf, codeBlock, "go",
\* "terminal256", "monokai"), is outside the repository.  It either fails,
\* writing nothing, or writes the code with colour codes around its tokens.
\* The Go lexer ends its input with a newline when it has none.
hlOn == "ESC[38;5;81m"
hlOff == "ESC[0m"

HighlightOutcomes == {"fail", "ok"}

RECURSIVE Colorize(_)
Colorize(code) ==
    IF Len(code) = 0 THEN <<>>
    ELSE (IF code[1] = "\n" THEN <<code[1]>> ELSE <<hlOn, code[1], hlOff>>)
         \o Colorize(Tail(code))

EnsureNL(code) ==
    IF Len(code) > 0 /\ code[Len(code)] = "\n" THEN code ELSE code \o <<"\n">>

\* what quick.Highlight leaves in the buffer and whether it returns an error
Highlight(codeBlock, outcome) ==
    IF outcome = "fail" THEN [err |-> TRUE, buf |-> <<>>]
    ELSE [err |-> FALSE, buf |-> Colorize(EnsureNL(codeBlock))]

RECURSIVE Repeat(_, _)
Repeat(t, n) == IF n <= 0 THEN <<>> ELSE <<t>> \o Repeat(t, n - 1)

\* the for i, hLine := range highlightedLines loop, from index i (0-based);
\* caret is TRUE in the single-node build, which adds the caret row
RECURSIVE PrintLines(_, _, _, _, _, _, _)
PrintLines(highlightedLines, lines, i, startLine, errorLineIndex, lineNumWidth, caret) ==
    IF i >= Len(highlightedLines) THEN <<>>
    ELSE IF i >= Len(lines)
    THEN PrintLines(highlightedLines, lines, i + 1, startLine, errorLineIndex, lineNumWidth, caret)
    ELSE LET hLine == highlightedLines[i + 1]
             lineNum == startLine + i
             isErrorLine == (i = errorLineIndex)
             num == <<"  ">> \o PadLeft(lineNumWidth, Itoa(lineNum)) \o <<" | ">>
             gutter == IF isErrorLine THEN boldGray(num) ELSE gray(num)
             caretRow ==
                 IF caret /\ isErrorLine
                 THEN boldGray(<<"  ">> \o Repeat(" ", lineNumWidth) \o <<" | ">>)
                      \o red(Repeat("^", Len(lines[i + 1]))) \o <<"\n">>
                 ELSE <<>>
         IN gutter \o hLine \o <<"\n">> \o caretRow
            \o PrintLines(highlightedLines, lines, i + 1, startLine, errorLineIndex,
                          lineNumWidth, caret)

Placeholder == <<"    ">> \o gray(<<"Could not read source file">>) \o <<"\n">>

\* FrameBody that emphasizes the line after the frame's line
FrameBodyOffByOne(file, frame, outcome, caret) ==
    LET location == gray(Base(frame.File) \o <<":">> \o Itoa(frame.Line))
        function == yellow(frame.Function)
        header == <<"  at ">> \o function \o <<" (">> \o location \o <<")", "\n">>
        r == readSourceContextLines(file, frame.Line, 1)
    IN IF r.err # "nil" THEN header \o Placeholder
       ELSE LET codeBlock == Join(r.lines, <<"\n">>)
                hl == Highlight(codeBlock, outcome)
                highlightedBuf == IF hl.err THEN hl.buf \o codeBlock ELSE hl.buf
                highlightedLines == Split(highlightedBuf, "\n")
                lineNumWidth == Len(Itoa(r.start + Len(r.lines) - 1))
                errorLineIndex == frame.Line - r.start + 1
            IN header \o PrintLines(highlightedLines, r.lines, 0, r.start,
                                    errorLineIndex, lineNumWidth, caret)

\* What one frame adds to w: the "at" header, then the placeholder when the
\* context cannot be read, else the numbered (highlighted) context lines.
\* file is the frame's source file as the file system holds it at this time.
FrameBody(file, frame, outcome, caret) ==
    LET location == gray(Base(frame.File) \o <<":">> \o Itoa(frame.Line))
        function == yellow(frame.Function)
        header == <<"  at ">> \o function \o <<" (">> \o location \o <<")", "\n">>
        r == readSourceContextLines(file, frame.Line, 1)
    IN IF r.err # "nil" THEN header \o Placeholder
       ELSE LET codeBlock == Join(r.lines, <<"\n">>)
                hl == Highlight(codeBlock, outcome)
                highlightedBuf == IF hl.err THEN hl.buf \o codeBlock ELSE hl.buf
                highlightedLines == Split(highlightedBuf, "\n")
                lineNumWidth == Len(Itoa(r.start + Len(r.lines) - 1))
                errorLineIndex == frame.Line - r.start
            IN header \o PrintLines(highlightedLines, r.lines, 0, r.start,
                                    errorLineIndex, lineNumWidth, caret)

printFrame(file, frame, outcome) == FrameBody(file, frame, outcome, FALSE)

\* the body of the frame loop of the single-node build's Fprint
printFrameV1(file, frame, outcome) == FrameBody(file, frame, outcome, TRUE)

CausedBy == <<"\n", formatItalic, "Caused by: ", colorReset>>

----------------------------------------------------------------------------
(* Inputs, initial states and actions *)

FileBytes == {"a", "\n", "\r", LongRun}

ReadInputs ==
    {[file |-> f, centerLine |-> c, context |-> x] :
        f \in {NoFile} \cup
              {[open |-> TRUE, data |-> d, ioerr |-> e] :
                  d \in SeqsUpTo(FileBytes, MaxFileLen), e \in BOOLEAN},
        c \in 1..MaxCenter, x \in 0..MaxContext}

Idle ==
    /\ heap = <<>> /\ last = None /\ pc = "idle" /\ root = 0 /\ cur = None
    /\ isFirst = TRUE /\ fi = 0 /\ out = <<>>

InitRead ==
    /\ variant = "chain"
    /\ Idle
    /\ call \in ReadInputs
    /\ result = None

ReadCall ==
    /\ result = None
    /\ result' = readSourceContextLines(call.file, call.centerLine, call.context)
    /\ UNCHANGED <<variant, heap, last, pc, root, cur, isFirst, fi, out, call>>

NextRead == ReadCall

SpecRead == InitRead /\ [][NextRead]_vars

\* The file system at the time of rendering.  a.go has 3 lines, b.go 10;
\* gone.go was there when the program was built and is not any more.
PathA == <<"/", "src", "/", "a.go">>
PathB == <<"/", "src", "/", "b.go">>
PathGone == <<"/", "src", "/", "gone.go">>

LinesA == << <<"f", "(", ")">>, <<"x", " ", "=", " ", "g", "(", ")">>, <<>> >>
LinesB == [i \in 1..10 |-> <<"l", DigitTok(i - 1)>>]

\* a text file of the given lines, each ended by a newline
FileOf(lines) ==
    IF Len(lines) = 0 THEN File(<<>>) ELSE File(Join(lines, <<"\n">>) \o <<"\n">>)

ReadFile(path) ==
    IF path = PathA THEN FileOf(LinesA)
    ELSE IF path = PathB THEN FileOf(LinesB)
    ELSE NoFile

\* The goroutine's stack below a constructor call, innermost level first.
RuntimeMain == Level(<<"/", "go", "/", "proc.go">>, 1, <<"runtime", ".", "main">>)
RuntimeGoexit == Level(<<"/", "go", "/", "asm.s">>, 1, <<"runtime", ".", "goexit">>)

\* Call sites of the constructors: the message (for Errorf and Wrapf the
\* format and arguments that give it) and the stack at the site.  The second
\* site's inner level has no symbol and a line one past the end of a.go as it
\* is now.
Sites ==
    { [msg |-> <<"m", "1">>, format |-> <<"m", "%d">>, args |-> <<1>>,
       stack |-> << Level(PathA, 2, <<"main", ".", "Gamma">>),
                    Level(PathGone, 7, <<"main", ".", "main">>),
                    RuntimeMain, RuntimeGoexit >>],
      [msg |-> <<"m", "2">>, format |-> <<"m", "%d">>, args |-> <<2>>,
       stack |-> << LevelNoFunc(PathA, 4),
                    Level(PathB, 10, <<"x", "/", "lib", ".", "Run">>),
                    RuntimeGoexit >>] }

StdMsg == <<"EOF">>

\* the errors a caller can pass to Wrap: nil, an error of another type, any
\* *Error it holds, or the *Error the previous constructor call returned
WrapArgs == {NilErr, Std(StdMsg)} \cup {Ptr(a) : a \in 1..Len(heap)}
            \cup (IF last = None THEN {} ELSE {ToError(last.res)})

Init ==
    /\ variant \in {"chain", "single"}
    /\ Idle
    /\ call = None
    /\ result = None

Called(op, err, msg, r) ==
    /\ heap' = r.heap
    /\ last' = [op |-> op, err |-> err, msg |-> msg, res |-> r.res]
    /\ UNCHANGED <<variant, pc, root, cur, isFirst, fi, out, call, result>>

NewCall ==
    /\ variant = "chain" /\ pc = "idle" /\ Len(heap) < MaxNodes
    /\ \E s \in Sites : Called("New", NilErr, s.msg, New(heap, s.stack, s.msg))

ErrorfCall ==
    /\ variant = "chain" /\ pc = "idle" /\ Len(heap) < MaxNodes
    /\ \E s \in Sites :
          Called("Errorf", NilErr, Sprintf(s.format, s.args),
                 Errorf(heap, s.stack, s.format, s.args))

WrapCall ==
    /\ variant = "chain" /\ pc = "idle" /\ Len(heap) < MaxNodes
    /\ \E s \in Sites, err \in WrapArgs :
          Called("Wrap", err, s.msg, Wrap(heap, s.stack, err, s.msg))

WrapfCall ==
    /\ variant = "chain" /\ pc = "idle" /\ Len(heap) < MaxNodes
    /\ \E s \in Sites, err \in WrapArgs :
          Called("Wrapf", err, Sprintf(s.format, s.args),
                 Wrapf(heap, s.stack, err, s.format, s.args))

NewV1Call ==
    /\ variant = "single" /\ pc = "idle" /\ Len(heap) < MaxNodes
    /\ \E s \in Sites : Called("New", NilErr, s.msg, NewV1(heap, s.stack, s.msg))

ErrorfV1Call ==
    /\ variant = "single" /\ pc = "idle" /\ Len(heap) < MaxNodes
    /\ \E s \in Sites :
          Called("Errorf", NilErr, Sprintf(s.format, s.args),
                 ErrorfV1(heap, s.stack, s.format, s.args))

\* e.Fprint(w) is called on an allocated *Error: currentErr = e, isFirst = true
FprintStart ==
    /\ variant = "chain" /\ pc = "idle"
    /\ \E a \in 1..Len(heap) :
          /\ root' = a
          /\ cur' = Ptr(a)
    /\ pc' = "loop" /\ isFirst' = TRUE /\ fi' = 0 /\ out' = <<>>
    /\ last' = None
    /\ UNCHANGED <<variant, heap, call, result>>

\* for currentErr != nil fails: Fprint returns
FprintExit ==
    /\ pc = "loop" /\ cur = NilErr
    /\ pc' = "done"
    /\ UNCHANGED <<variant, heap, last, root, cur, isFirst, fi, out, call, result>>

\* FprintNode with the separator written before the first node too
FprintNodeAlwaysSep ==
    /\ pc = "loop" /\ cur # NilErr
    /\ IF cur.k = "ptr"
       THEN /\ out' = out \o CausedBy \o red(heap[cur.a].Msg) \o <<"\n">>
            /\ pc' = "frames" /\ fi' = 1
       ELSE IF cur.k = "nilptr"
       THEN /\ out' = out \o CausedBy
            /\ pc' = "panic" /\ fi' = 0
       ELSE /\ out' = out \o CausedBy \o red(Error(heap, cur).v) \o <<"\n">>
            /\ pc' = "next" /\ fi' = 0
    /\ UNCHANGED <<variant, heap, last, root, cur, isFirst, call, result>>

\* the loop body up to the frames: the type assertion, the separator, the
\* message; tracerrErr.Msg on a nil *Error panics after the separator is out
FprintNode ==
    /\ pc = "loop" /\ cur # NilErr
    /\ LET sep == IF ~isFirst THEN CausedBy ELSE <<>> IN
       IF cur.k = "ptr"
       THEN /\ out' = out \o sep \o red(heap[cur.a].Msg) \o <<"\n">>
            /\ pc' = "frames" /\ fi' = 1
       ELSE IF cur.k = "nilptr"
       THEN /\ out' = out \o sep
            /\ pc' = "panic" /\ fi' = 0
       ELSE /\ out' = out \o sep \o red(Error(heap, cur).v) \o <<"\n">>
            /\ pc' = "next" /\ fi' = 0
    /\ UNCHANGED <<variant, heap, last, root, cur, isFirst, call, result>>

\* printFrame(w, frame) for the next frame of the current node
FprintFrame ==
    /\ variant = "chain" /\ pc = "frames" /\ fi <= Len(heap[cur.a].Frames)
    /\ LET frame == heap[cur.a].Frames[fi] IN
       \E outcome \in HighlightOutcomes :
          out' = out \o printFrame(ReadFile(frame.File), frame, outcome)
    /\ fi' = fi + 1
    /\ UNCHANGED <<variant, heap, last, pc, root, cur, isFirst, call, result>>

\* currentErr = errors.Unwrap(currentErr); isFirst = false
FprintAdvance ==
    /\ variant = "chain"
    /\ \/ pc = "frames" /\ fi > Len(heap[cur.a].Frames)
       \/ pc = "next"
    /\ cur' = errorsUnwrap(heap, cur).v
    /\ isFirst' = FALSE /\ fi' = 0 /\ pc' = "loop"
    /\ UNCHANGED <<variant, heap, last, root, out, call, result>>

\* Fprint of the single-node build: the message, then the frames
FprintV1Start ==
    /\ variant = "single" /\ pc = "idle"
    /\ \E a \in 1..Len(heap) :
          /\ root' = a
          /\ cur' = Ptr(a)
          /\ out' = red(heap[a].Msg) \o <<colorReset, "\n">>
    /\ pc' = "frames" /\ isFirst' = TRUE /\ fi' = 1
    /\ last' = None
    /\ UNCHANGED <<variant, heap, call, result>>

FprintV1Frame ==
    /\ variant = "single" /\ pc = "frames" /\ fi <= Len(heap[cur.a].Frames)
    /\ LET frame == heap[cur.a].Frames[fi] IN
       \E outcome \in HighlightOutcomes :
          out' = out \o printFrameV1(ReadFile(frame.File), frame, outcome)
    /\ fi' = fi + 1
    /\ UNCHANGED <<variant, heap, last, pc, root, cur, isFirst, call, result>>

FprintV1Exit ==
    /\ variant = "single" /\ pc = "frames" /\ fi > Len(heap[cur.a].Frames)
    /\ pc' = "done"
    /\ UNCHANGED <<variant, heap, last, root, cur, isFirst, fi, out, call, result>>

\* the caller goes on after Fprint has returned
FprintReturn ==
    /\ pc = "done"
    /\ pc' = "idle" /\ root' = 0 /\ cur' = None /\ isFirst' = TRUE /\ fi' = 0
    /\ out' = <<>>
    /\ UNCHANGED <<variant, heap, last, call, result>>

Next ==
    \/ NewCall \/ ErrorfCall \/ WrapCall \/ WrapfCall
    \/ NewV1Call \/ ErrorfV1Call
    \/ FprintStart \/ FprintExit \/ FprintNode \/ FprintFrame \/ FprintAdvance
    \/ FprintV1Start \/ FprintV1Frame \/ FprintV1Exit
    \/ FprintReturn

Spec == Init /\ [][Next]_vars

\* newError alone, on every stack of at most MaxDepth levels
CaptureLevels ==
    { Level(PathA, 1, <<"main", ".", "A">>),
      Level(PathA, 2, <<"runtime", ".", "main">>),
      Level(PathA, 3, <<"x", "/", "runtime", ".", "Do">>),
      Level(PathA, 4, <<"runtime", "/", "debug", ".", "Stack">>),
      LevelNoFunc(PathA, 5) }

InitCapture ==
    /\ variant \in {"chain", "single"}
    /\ Idle
    /\ call \in {[stack |-> s] : s \in SeqsUpTo(CaptureLevels, MaxDepth)}
    /\ result = None

CaptureCall ==
    /\ variant = "chain" /\ result = None
    /\ result' = newError(FullStack("New", 46, call.stack), <<"m">>, 2)
    /\ UNCHANGED <<variant, heap, last, pc, root, cur, isFirst, fi, out, call>>

CaptureV1Call ==
    /\ variant = "single" /\ result = None
    /\ result' = newErrorV1(FullStack("New", 44, call.stack), <<"m">>, 2)
    /\ UNCHANGED <<variant, heap, last, pc, root, cur, isFirst, fi, out, call>>

NextCapture == CaptureCall \/ CaptureV1Call

SpecCapture == InitCapture /\ [][NextCapture]_vars

\* One frame printed alone: a file of n lines (some of them empty), a frame
\* at any line up to two past its end, either outcome of the engine.
TextLines(n) == [i \in 1..n |-> IF i % 3 = 0 THEN <<>> ELSE <<"l", DigitTok(i % 10), ";">>]

FrameInputs ==
    {[file |-> f,
      frame |-> [File |-> PathA, Line |-> l, Function |-> <<"main", ".", "A">>],
      outcome |-> o] :
        f \in {NoFile} \cup {FileOf(TextLines(n)) : n \in 0..MaxLines},
        l \in 1..(MaxLines + 2),
        o \in HighlightOutcomes}

InitFrame ==
    /\ variant \in {"chain", "single"}
    /\ Idle
    /\ call \in FrameInputs
    /\ result = None

PrintFrameCall ==
    /\ variant = "chain" /\ result = None
    /\ result' = [out |-> printFrame(call.file, call.frame, call.outcome)]
    /\ UNCHANGED <<variant, heap, last, pc, root, cur, isFirst, fi, out, call>>

PrintFrameV1Call ==
    /\ variant = "single" /\ result = None
    /\ result' = [out |-> printFrameV1(call.file, call.frame, call.outcome)]
    /\ UNCHANGED <<variant, heap, last, pc, root, cur, isFirst, fi, out, call>>

NextFrame == PrintFrameCall \/ PrintFrameV1Call

SpecFrame == InitFrame /\ [][NextFrame]_vars

----------------------------------------------------------------------------
(* Properties of readSourceContextLines, under SpecRead *)

\* the lines of the file of the call under check, and the window asked for
CallLines == ScanLines(call.file.data)
CallStart == Max(1, call.centerLine - call.context)
CallEnd == call.centerLine + call.context

\* C4: a successful read returns startLine = max(1, centerLine - radius) and
\* exactly the file's lines with index in [startLine, centerLine + radius],
\* in file order, none missing and none extra.
C4_ReadWindowExact ==
    (result # None /\ result.err = "nil") =>
        LET hi == Min(CallEnd, Len(CallLines)) IN
        /\ result.start = CallStart
        /\ hi >= CallStart
        /\ result.lines = [i \in 1..(hi - CallStart + 1) |-> CallLines[CallStart + i - 1]]

\* a read of lines 2,3,4 around centerLine 3 of a file of at least 4 lines
C4_Witness ==
    /\ result # None /\ result.err = "nil"
    /\ call.centerLine = 3 /\ call.context = 1
    /\ result.start = 2 /\ Len(result.lines) = 3
    /\ Len(CallLines) >= 4

\* C5 as stated: a centerLine beyond the end of an opened file is a ReadError
\* whatever the radius.
C5_BeyondEofAlwaysError ==
    (result # None /\ call.file.open /\ call.centerLine > Len(CallLines)) =>
        result.err # "nil"

\* C5 as amended: with centerLine beyond the end of an opened file the read
\* fails exactly when no line of the file lies in the window, that is when
\* max(1, centerLine - radius) is beyond the end too (always for radius 0),
\* or when the scan fails (an I/O error, or a line too long for the
\* scanner); otherwise it succeeds with the lines startLine..L, which do not
\* include centerLine.
C5_BeyondEofErrorIffWindowEmpty ==
    (result # None /\ call.file.open /\ call.centerLine > Len(CallLines)) =>
        /\ (result.err # "nil") <=>
               \/ CallStart > Len(CallLines)
               \/ call.file.ioerr
               \/ FirstTooLong(call.file.data) > 0
        /\ (result.err = "nil") =>
               /\ result.start = CallStart
               /\ result.start + Len(result.lines) - 1 = Len(CallLines)
               /\ call.centerLine > result.start + Len(result.lines) - 1

\* radius 1, a file of at least one line, centerLine two or more past its
\* end: the read reports that no line was found
C5_Witness ==
    /\ result # None /\ result.err = "empty"
    /\ call.file.open /\ ~call.file.ioerr
    /\ call.context = 1
    /\ Len(CallLines) >= 1
    /\ call.centerLine >= Len(CallLines) + 2

----------------------------------------------------------------------------
(* Properties of the constructors and of Error/Unwrap, under Spec *)

IsWrap(l) == l # None /\ l.op \in {"Wrap", "Wrapf"}

\* the node at a and the nodes below it are *Error values down to a node
\* without cause: a chain built by New or Errorf followed by wraps
RECURSIVE NodeChain(_, _)
NodeChain(h, a) ==
    IF h[a].cause = NilErr THEN TRUE
    ELSE IF h[a].cause.k = "ptr" THEN NodeChain(h, h[a].cause.a)
    ELSE FALSE

\* the messages along a node chain, from the node at a down to the oldest
RECURSIVE ChainMsgs(_, _)
ChainMsgs(h, a) ==
    IF h[a].cause = NilErr THEN <<h[a].Msg>>
    ELSE <<h[a].Msg>> \o ChainMsgs(h, h[a].cause.a)

\* C1: in the chain-aware build, Unwrap of the node a wrap returned is the
\* error that was passed to the wrap; Error() of a node without cause is its
\* own message; Error() of a node of a chain built by New/Errorf and wraps is
\* the messages of the chain, newest first, joined by ": " (so that Error()
\* of Wrap(New(M1), M2) is M2 ": " M1).
C1_MessageAndUnwrap ==
    variant = "chain" =>
        /\ (IsWrap(last) /\ last.res # 0) =>
               /\ Unwrap(heap, Ptr(last.res)) = Val(last.err)
               /\ heap[last.res].Msg = last.msg
        /\ \A a \in 1..Len(heap) :
               /\ heap[a].cause = NilErr => Error(heap, Ptr(a)) = Val(heap[a].Msg)
               /\ NodeChain(heap, a) =>
                      Error(heap, Ptr(a)) = Val(Join(ChainMsgs(heap, a), <<":", " ">>))
               /\ (heap[a].cause.k = "ptr" /\ heap[heap[a].cause.a].cause = NilErr) =>
                      Error(heap, Ptr(a)).v =
                          heap[a].Msg \o <<":", " ">> \o heap[heap[a].cause.a].Msg

\* E3 = Wrap(E2, m1) has just returned, E2 = Wrap(E1, m2), E1 = New(m1)
C1_Witness ==
    /\ variant = "chain" /\ Len(heap) = 3
    /\ IsWrap(last) /\ last.res = 3 /\ last.err = Ptr(2)
    /\ heap[3].cause = Ptr(2) /\ heap[2].cause = Ptr(1) /\ heap[1].cause = NilErr
    /\ Error(heap, Ptr(3)).v = <<"m", "1", ":", " ", "m", "2", ":", " ", "m", "1">>

\* a step in which Wrap or Wrapf is called with the nil error
WrapOfNil == last' # last /\ IsWrap(last') /\ last'.err = NilErr

\* C2: Wrap(nil, M) and Wrapf(nil, format, args) return nil and construct
\* nothing: the heap of Error values (and so the captured frames) is as before.
C2_WrapNilReturnsNil ==
    [][WrapOfNil => (last'.res = 0 /\ heap' = heap)]_vars

\* Wrap(nil, M) has returned nil with an Error already allocated
C2_Witness ==
    /\ IsWrap(last) /\ last.err = NilErr /\ last.res = 0
    /\ Len(heap) >= 1

\* a step in which a constructor returns a node
Constructed == last' # last /\ last' # None /\ last'.res # 0

\* C7: every constructor call that returns a node has allocated a fresh one,
\* a wrap's node has the given error as cause, no existing node changes in any
\* step, and every cause that is a node is an older node: the cause relation
\* is acyclic and every chain is finite.
C7_FreshNodesNoMutation ==
    /\ [][/\ Len(heap') >= Len(heap)
          /\ \A a \in 1..Len(heap) : heap'[a] = heap[a]
          /\ Constructed =>
                /\ Len(heap') = Len(heap) + 1
                /\ last'.res = Len(heap')
                /\ heap'[last'.res].cause = last'.err]_vars
    /\ [](\A a \in 1..Len(heap) :
             heap[a].cause.k = "ptr" => heap[a].cause.a \in 1..(a - 1))

\* a wrap of a wrap of a new error: three nodes, each the cause of the next
C7_Witness ==
    /\ Len(heap) = 3 /\ IsWrap(last) /\ last.res = 3
    /\ heap[3].cause = Ptr(2) /\ heap[2].cause = Ptr(1) /\ heap[1].cause = NilErr

\* C10 as stated: a nil *Error returned by a wrap and handed on as an error
\* is still nil to the next wrap, which returns nil, and no node has a nil
\* *Error as its cause, so that Error() never panics on a node.
C10_AbsencePropagates ==
    /\ (IsWrap(last) /\ last.err = NilPtr) => last.res = 0
    /\ \A a \in 1..Len(heap) :
          /\ heap[a].cause # NilPtr
          /\ ~Error(heap, Ptr(a)).panic

----------------------------------------------------------------------------
(* Properties of Fprint, under Spec *)

ColorTokens ==
    {colorRed, colorYellow, colorReset, colorGray, colorBoldGray, formatItalic, hlOn, hlOff}

\* the output without its colour codes
StripColor(s) == SelectSeq(s, LAMBDA t : t \notin ColorTokens)

CountTok(s, t) == Len(SelectSeq(s, LAMBDA x : x = t))

\* the rows of the output: the text before each newline
Rows(s) ==
    LET parts == Split(s, "\n") IN SubSeq(parts, 1, Len(parts) - 1)

IsHeaderRow(r) == Len(r) > 0 /\ r[1] = "  at "
IsMessageRow(r) == Len(r) > 0 /\ r[1] \in {colorRed, formatItalic}

\* the rows that carry a node's message, as Fprint of the chain-aware build
\* writes them for a chain of messages: the first bare, the others behind
\* the separator
ExpectedMessageRows(msgs) ==
    [i \in 1..Len(msgs) |->
        IF i = 1 THEN red(msgs[i])
        ELSE <<formatItalic, "Caused by: ", colorReset>> \o red(msgs[i])]

\* the nodes still to visit from the error value e on
RECURSIVE Remaining(_, _)
Remaining(h, e) ==
    IF e.k = "ptr" THEN 1 + Remaining(h, h[e.a].cause)
    ELSE IF e.k = "std" THEN 1
    ELSE 0

\* more than the steps Fprint spends on one node
StepsPerNode(h) ==
    LET F == {Len(h[a].Frames) : a \in 1..Len(h)} IN
    4 + (CHOOSE n \in F \cup {0} : \A m \in F \cup {0} : m <= n)

\* a measure of the work a running Fprint has left
Rank(h, p, c, f) ==
    IF p = "loop" THEN Remaining(h, c) * StepsPerNode(h) + 1
    ELSE IF p = "frames"
    THEN (Remaining(h, c) - 1) * StepsPerNode(h) + 3 + Len(h[c.a].Frames) - f
    ELSE IF p = "next" THEN (Remaining(h, c) - 1) * StepsPerNode(h) + 2
    ELSE 0

\* the chain from the error value e on is made of *Error nodes, the oldest
\* without cause or with a cause of another error type
RECURSIVE ErrChain(_, _)
ErrChain(h, e) ==
    IF e.k = "ptr" THEN ErrChain(h, h[e.a].cause)
    ELSE e.k \in {"nil", "std"}

\* the messages of the errors of such a chain, newest first
RECURSIVE ErrMsgs(_, _)
ErrMsgs(h, e) ==
    IF e.k = "ptr" THEN <<h[e.a].Msg>> \o ErrMsgs(h, h[e.a].cause)
    ELSE IF e.k = "std" THEN <<e.msg>>
    ELSE <<>>

Walking ==
    variant = "chain" /\ pc \in {"loop", "frames", "next"} /\ ErrChain(heap, Ptr(root))

\* C3: Fprint of a chain of n errors is a walk that ends: while it runs it is
\* at the loop head, at a frame of the cursor's node, or past an error of
\* another type, so that the guard of its next step holds, and every step
\* leaves less to do; when it has ended (the cursor is nil) it has written
\* each error's message once, newest wrap first, with a "Caused by:"
\* separator before every one but the first, n - 1 separators in all.
C3_LinearWalk ==
    /\ []((variant = "chain" /\ pc = "done" /\ ErrChain(heap, Ptr(root))) =>
            LET msgs == ErrMsgs(heap, Ptr(root)) IN
            /\ CountTok(out, "Caused by: ") = Len(msgs) - 1
            /\ SelectSeq(Rows(out), IsMessageRow) = ExpectedMessageRows(msgs)
            /\ cur = NilErr)
    /\ [](Walking =>
            /\ Rank(heap, pc, cur, fi) > 0
            /\ \/ pc = "loop" /\ cur.k \in {"nil", "ptr", "std"}
               \/ pc = "frames" /\ cur.k = "ptr" /\ fi \in 1..(Len(heap[cur.a].Frames) + 1)
               \/ pc = "next" /\ cur.k = "std")
    /\ [][Walking =>
            /\ pc' \in {"loop", "frames", "next", "done"}
            /\ Rank(heap', pc', cur', fi') < Rank(heap, pc, cur, fi)]_vars

\* Fprint of a chain of three nodes has ended with two separators written
C3_Witness ==
    /\ variant = "chain" /\ pc = "done" /\ root = 3
    /\ heap[3].cause = Ptr(2) /\ heap[2].cause = Ptr(1) /\ heap[1].cause = NilErr
    /\ CountTok(out, "Caused by: ") = 2

\* the lines of a file, and the window of radius 1 around a frame's line
LinesOf(file) == ScanLines(file.data)
WinLo(frame) == Max(1, frame.Line - 1)
WinHi(file, frame) == Min(Len(LinesOf(file)), frame.Line + 1)
Readable(file, frame) == file.open /\ WinHi(file, frame) >= WinLo(frame)

RECURSIVE PlainWindow(_, _, _, _, _)
PlainWindow(file, frame, n, width, caret) ==
    IF n > WinHi(file, frame) THEN <<>>
    ELSE <<"  ">> \o PadLeft(width, Itoa(n)) \o <<" | ">> \o LinesOf(file)[n] \o <<"\n">>
         \o (IF caret /\ n = frame.Line
             THEN <<"  ">> \o Repeat(" ", width) \o <<" | ">>
                  \o Repeat("^", Len(LinesOf(file)[n])) \o <<"\n">>
             ELSE <<>>)
         \o PlainWindow(file, frame, n + 1, width, caret)

\* the characters other than colour codes that a frame is to give: its header,
\* then the placeholder or its numbered context lines
PlainFrame(file, frame, caret) ==
    <<"  at ">> \o frame.Function \o <<" (">> \o Base(frame.File) \o <<":">>
        \o Itoa(frame.Line) \o <<")", "\n">>
    \o (IF Readable(file, frame)
        THEN PlainWindow(file, frame, WinLo(frame), Len(Itoa(WinHi(file, frame))), caret)
        ELSE <<"    ", "Could not read source file", "\n">>)

RECURSIVE PlainFrames(_, _, _)
PlainFrames(frames, i, caret) ==
    IF i > Len(frames) THEN <<>>
    ELSE PlainFrame(ReadFile(frames[i].File), frames[i], caret)
         \o PlainFrames(frames, i + 1, caret)

RECURSIVE PlainChain(_, _, _)
PlainChain(h, e, first) ==
    IF e.k = "ptr"
    THEN (IF first THEN <<>> ELSE <<"\n", "Caused by: ">>)
         \o h[e.a].Msg \o <<"\n">> \o PlainFrames(h[e.a].Frames, 1, FALSE)
         \o PlainChain(h, h[e.a].cause, FALSE)
    ELSE IF e.k = "std"
    THEN (IF first THEN <<>> ELSE <<"\n", "Caused by: ">>) \o e.msg \o <<"\n">>
    ELSE <<>>

\* Whatever the engine did for each frame and whichever reads failed, a
\* finished Fprint has written the same characters other than colour codes:
\* per node its message, per frame its header and then the placeholder or the
\* numbered context lines.
RenderedPlainText ==
    pc = "done" =>
        StripColor(out) =
            IF variant = "chain" THEN PlainChain(heap, Ptr(root), TRUE)
            ELSE heap[root].Msg \o <<"\n">> \o PlainFrames(heap[root].Frames, 1, TRUE)

\* C8 as stated: Fprint never raises, and its output has the characters of
\* RenderedPlainText whatever fails on the way.
C8_RenderAbsorbsFailures ==
    /\ pc # "panic"
    /\ RenderedPlainText

----------------------------------------------------------------------------
(* Properties of one printed frame, under SpecFrame *)

\* the rows written for a frame after its header
Block == LET rows == Rows(result.out) IN SubSeq(rows, 2, Len(rows))

\* the digits in a row's gutter; none for a caret row
GutterDigits(r) ==
    SelectSeq(SubSeq(r, 3, Index(r, " | ") - 1), LAMBDA t : t # " ")

IsCaretRow(r) == GutterDigits(r) = <<>>
IsEmphasized(r) == r[1] = colorBoldGray

\* a frame has been printed whose context could be read
FramePrinted == result # None /\ Readable(call.file, call.frame)

\* Whatever the engine did, a printed frame has the same characters other
\* than colour codes: the header, then the placeholder or the context lines.
FramePlainText ==
    result # None =>
        /\ IsHeaderRow(Rows(result.out)[1])
        /\ StripColor(result.out) = PlainFrame(call.file, call.frame, variant = "single")

\* the block has one gutter per collected line, numbered from the window's
\* first line on, emphasized exactly where the number is the frame's line,
\* and the caret rows (single-node build only) are those right after the
\* emphasized rows
BlockWellFormed ==
    LET gut == SelectSeq(Block, LAMBDA r : ~IsCaretRow(r))
    IN /\ Len(gut) = WinHi(call.file, call.frame) - WinLo(call.frame) + 1
       /\ \A i \in 1..Len(gut) :
             /\ GutterDigits(gut[i]) = Itoa(WinLo(call.frame) + i - 1)
             /\ IsEmphasized(gut[i]) <=> (WinLo(call.frame) + i - 1 = call.frame.Line)
       /\ \A i \in 1..Len(Block) :
             IsCaretRow(Block[i]) =>
                 /\ variant = "single"
                 /\ i > 1 /\ ~IsCaretRow(Block[i - 1]) /\ IsEmphasized(Block[i - 1])
       /\ \A i \in 1..Len(Block) :
             (variant = "single" /\ ~IsCaretRow(Block[i]) /\ IsEmphasized(Block[i])) =>
                 (i < Len(Block) /\ IsCaretRow(Block[i + 1]))

EmphasizedCount ==
    Cardinality({i \in 1..Len(Block) : ~IsCaretRow(Block[i]) /\ IsEmphasized(Block[i])})

CaretCount == Cardinality({i \in 1..Len(Block) : IsCaretRow(Block[i])})

\* C9 as stated: for every frame whose context read succeeds the block is
\* well formed and exactly one gutter is emphasized, followed in the
\* single-node build by exactly one caret row.
C9_ExactlyOneEmphasized ==
    FramePrinted =>
        /\ BlockWellFormed
        /\ EmphasizedCount = 1
        /\ variant = "single" => CaretCount = 1

\* C9 as amended: the block is well formed; exactly one gutter is emphasized
\* (and, single-node build, exactly one caret row follows it) when the frame's
\* line is a line of the file as it is read; when the frame's line is one
\* past the end of the file the read succeeds all the same, and then no
\* gutter is emphasized and no caret row is written.
C9_EmphasizedIffLineInFile ==
    FramePrinted =>
        /\ BlockWellFormed
        /\ call.frame.Line <= Len(LinesOf(call.file)) =>
              /\ EmphasizedCount = 1
              /\ CaretCount = (IF variant = "single" THEN 1 ELSE 0)
        /\ call.frame.Line > Len(LinesOf(call.file)) =>
              /\ call.frame.Line = Len(LinesOf(call.file)) + 1
              /\ EmphasizedCount = 0
              /\ CaretCount = 0

\* the single-node build has printed a frame at line 10 of an 11-line file:
\* gutters 9, 10, 11, the second emphasized, one caret row after it
C9_Witness ==
    /\ variant = "single" /\ FramePrinted
    /\ call.frame.Line = 10 /\ Len(LinesOf(call.file)) = 11
    /\ Len(Block) = 4
    /\ GutterDigits(Block[1]) = <<"9">> /\ GutterDigits(Block[2]) = <<"1", "0">>
    /\ IsEmphasized(Block[2]) /\ IsCaretRow(Block[3])
    /\ EmphasizedCount = 1 /\ CaretCount = 1

----------------------------------------------------------------------------
(* Properties of newError, under SpecCapture *)

HasRuntimeName(frame) == HasPrefix(frame.Function, RuntimePrefix)

\* C6 as stated: in both builds no captured frame has a function name with
\* the prefix "runtime.".
C6_NoRuntimeFrames ==
    result # None =>
        \A i \in 1..Len(result.Frames) : ~HasRuntimeName(result.Frames[i])

\* the name newError gives a level
LevelName(lv) == IF lv.known THEN Base(lv.name) ELSE <<"<unknown>">>

\* In the chain-aware build the frames are the levels above the constructor,
\* innermost first, up to and without the first whose name has the prefix.
ChainCaptureStopsAtRuntime ==
    (result # None /\ variant = "chain") =>
        LET st == call.stack
            cut == {i \in 1..Len(st) : HasPrefix(LevelName(st[i]), RuntimePrefix)}
            n == IF cut = {} THEN Len(st) ELSE (CHOOSE i \in cut : \A j \in cut : i <= j) - 1
        IN /\ Len(result.Frames) = n
           /\ \A i \in 1..n :
                 result.Frames[i] =
                     [File |-> st[i].file, Line |-> st[i].line, Function |-> LevelName(st[i])]
           /\ \A i \in 1..n : ~HasRuntimeName(result.Frames[i])

====
